---- MODULE Spec2Model ----
(***************************************************************************)
(* A model of the AI VC research server: the static firm directory of      *)
(* main.py and the search aggregator of server.py.                         *)
(*                                                                         *)
(* Input strings (keys, firm names, comma-separated lists) are sequences   *)
(* of one-character strings, so that lower(), upper(), strip() and split() *)
(* are computed character by character.  Output lines are TLA+ strings     *)
(* built with \o, the way the f-strings build them.                        *)
(***************************************************************************)
EXTENDS Integers, Sequences, FiniteSets, TLC

VARIABLES
    ai_vcs,           \* main.py: the in-memory directory (insertion ordered)
    brave_api_key,    \* server.py: AIVCResearcher.brave_api_key
    corpus,           \* the raw items the search provider can answer with
    pc,               \* where the running tool is: "idle" between tool calls,
                      \* "done" when it has returned
    tool,             \* the tool running (or the one that ran last)
    vc_name,          \* research_vc: its parameter
    qi,               \* research_vc: index of the query the for loop is at
    all_results,      \* research_vc: the local all_results
    vc_list,          \* compare_vc_firms: the local vc_list
    vi,               \* compare_vc_firms: index of the name the for loop is at
    comparison_data,  \* compare_vc_firms: the local dict, insertion ordered
    ret,              \* what the tool handed to the host
    bundle,           \* what the last research_vc returned
    vc_key,           \* get_vc_info: its parameter
    calls,            \* history: the search_web calls of this research_vc
    overlong,         \* history: an answer to this research_vc was longer than asked
    events            \* history: "req" and "sleep" events of the running tool

vars == <<ai_vcs, brave_api_key, corpus, pc, tool, vc_name, qi, all_results,
          vc_list, vi, comparison_data, ret, bundle,
          vc_key, calls, overlong, events>>

-----------------------------------------------------------------------------
(* Bounds of the model *)

\* The longest web.results list the provider answers with (the research
\* queries ask for 3).
MaxResp == 4

-----------------------------------------------------------------------------
(* Strings *)

None == "<None>"

CasePairs ==
    { <<"a", "A">>, <<"b", "B">>, <<"e", "E">>, <<"g", "G">>, <<"i", "I">>,
      <<"k", "K">>, <<"l", "L">>, <<"n", "N">>, <<"o", "O">>, <<"q", "Q">>,
      <<"r", "R">>, <<"s", "S">>, <<"u", "U">>, <<"v", "V">>, <<"x", "X">>,
      <<"z", "Z">> }

LowerChar(c) ==
    IF \E p \in CasePairs : p[2] = c
    THEN (CHOOSE p \in CasePairs : p[2] = c)[1]
    ELSE c

UpperChar(c) ==
    IF \E p \in CasePairs : p[1] = c
    THEN (CHOOSE p \in CasePairs : p[1] = c)[2]
    ELSE c

\* a lookup that forgets lower()
LowerForgotten(s) == s

\* str.lower()
Lower(s) == [i \in 1..Len(s) |-> LowerChar(s[i])]

\* str.upper()
Upper(s) == [i \in 1..Len(s) |-> UpperChar(s[i])]

RECURSIVE LStrip(_)
LStrip(s) == IF s # <<>> /\ Head(s) = " " THEN LStrip(Tail(s)) ELSE s

RECURSIVE RStrip(_)
RStrip(s) ==
    IF s # <<>> /\ s[Len(s)] = " " THEN RStrip(SubSeq(s, 1, Len(s) - 1)) ELSE s

\* str.strip()
Strip(s) == RStrip(LStrip(s))

\* str.split(','): always at least one field, empty fields kept
RECURSIVE Split(_, _)
Split(s, cur) ==
    IF s = <<>> THEN <<cur>>
    ELSE IF Head(s) = "," THEN <<cur>> \o Split(Tail(s), <<>>)
    ELSE Split(Tail(s), Append(cur, Head(s)))

\* the text of a character sequence, as an f-string renders it
RECURSIVE ToStr(_)
ToStr(s) == IF s = <<>> THEN "" ELSE Head(s) \o ToStr(Tail(s))

\* sep.join(parts)
RECURSIVE Join(_, _)
Join(parts, sep) ==
    IF parts = <<>> THEN ""
    ELSE IF Len(parts) = 1 THEN parts[1]
    ELSE parts[1] \o sep \o Join(Tail(parts), sep)

\* str(i) of the small numbers enumerate() produces
IntStr(i) ==
    CASE i = 0 -> "0" [] i = 1 -> "1" [] i = 2 -> "2" [] i = 3 -> "3"
      [] i = 4 -> "4" [] i = 5 -> "5" [] i = 6 -> "6" [] i = 7 -> "7"
      [] i = 8 -> "8" [] i = 9 -> "9" [] i = 10 -> "10" [] OTHER -> "11+"

\* c * n
RECURSIVE Repeat(_, _)
Repeat(c, n) == IF n <= 0 THEN "" ELSE c \o Repeat(c, n - 1)

\* seq[:n]
Take(seq, n) == SubSeq(seq, 1, IF Len(seq) < n THEN Len(seq) ELSE n)

\* the return value of a tool that returned a string / that raised
Str(lines) == [kind |-> "str", lines |-> lines]
Raised(what) == [kind |-> "raise", lines |-> <<what>>]

\* no return value yet: the tool is running
Pending == [kind |-> "pending", lines |-> <<>>]

-----------------------------------------------------------------------------
(* main.py: the directory *)

Directory ==
    << [key |-> <<"a", "1", "6", "z">>, name |-> "Andreessen Horowitz",
        focus |-> "AI/ML", notable |-> <<"OpenAI", "Databricks">>],
       [key |-> <<"s", "e", "q", "u", "o", "i", "a">>, name |-> "Sequoia Capital",
        focus |-> "AI/Enterprise", notable |-> <<"OpenAI", "Stripe">>],
       [key |-> <<"g", "v">>, name |-> "GV (Google Ventures)",
        focus |-> "AI/Infrastructure", notable |-> <<"Anthropic", "DeepMind">>],
       [key |-> <<"n", "e", "a">>, name |-> "NEA",
        focus |-> "Enterprise AI", notable |-> <<"Salesforce", "DataRobot">>],
       [key |-> <<"k", "l", "e", "i", "n", "e", "r">>, name |-> "Kleiner Perkins",
        focus |-> "AI/Consumer", notable |-> <<"Google", "Amazon">>] >>

\* ai_vcs.keys()
DictKeys(d) == [i \in 1..Len(d) |-> d[i].key]

\* whether ai_vcs.get(k) is an entry (truthy) and not None
DictHas(d, k) == \E i \in 1..Len(d) : d[i].key = k

\* ai_vcs.get(k), for a key the directory holds
DictGet(d, k) == d[CHOOSE i \in 1..Len(d) : d[i].key = k]

\* get_ai_vcs()
GetAiVcsResult(d) ==
    Str([i \in 1..Len(d) |->
           d[i].name \o ": " \o d[i].focus \o " - Notable: "
             \o Join(d[i].notable, ", ")])

\* The arguments the host may hand to get_vc_info: a str, or another type.
StrArg(s) == [type |-> "str", val |-> s]
IntArg == [type |-> "int", val |-> <<>>]
NoneArg == [type |-> "NoneType", val |-> <<>>]

\* vc_key.lower(): only a str has the method
HasLower(arg) == arg.type = "str"

\* get_vc_info(vc_key)
GetVcInfoResult(d, arg) ==
    IF ~HasLower(arg)
    THEN Raised("AttributeError: '" \o arg.type \o "' object has no attribute 'lower'")
    ELSE IF DictHas(d, Lower(arg.val))
    THEN LET vc == DictGet(d, Lower(arg.val)) IN
         Str(<<vc.name, "Focus: " \o vc.focus,
               "Notable investments: " \o Join(vc.notable, ", ")>>)
    ELSE Str(<<"VC '" \o ToStr(arg.val) \o "' not found. Available: "
                 \o Join([i \in 1..Len(d) |-> ToStr(DictKeys(d)[i])], ", ")>>)

-----------------------------------------------------------------------------
(* server.py: what the search provider answers *)

\* A key a raw result item does not have.
Absent == "<absent>"

\* A url of the JSON answer that is a list: it cannot be hashed.
Unhashable == "['u1']"

RawItem(isdict, title, url, description) ==
    [isdict |-> isdict, title |-> title, url |-> url, description |-> description]

\* Five kinds of raw item: two that share a url and differ in title, one
\* with no url key, one whose url is unhashable, and one that is no dict.
ItemA == RawItem(TRUE, "t1", "u1", "d1")
ItemB == RawItem(TRUE, "t2", "u1", Absent)
ItemC == RawItem(TRUE, Absent, Absent, "")
ItemD == RawItem(TRUE, "t1", Unhashable, Absent)
ItemJ == RawItem(FALSE, Absent, Absent, Absent)

\* The widest ranked result list of the wide provider.
WideSize == 7

\* A ranked list of well-formed items with pairwise different urls.
Ranking ==
    [i \in 1..WideSize |-> RawItem(TRUE, "w", "w" \o IntStr(i), Absent)]

SeqsUpTo(S, n) == UNION { [1..k -> S] : k \in 0..n }

\* The result lists a provider can answer with: any list over a small set
\* of items, or any window of the ranking.
ResultLists(c) ==
    IF c.mode = "any" THEN SeqsUpTo(c.items, MaxResp)
    ELSE { SubSeq(Ranking, i, j) :
             <<i, j>> \in { w \in (1..WideSize) \X (0..WideSize) :
                              w[2] - w[1] + 1 <= MaxResp /\ w[2] >= w[1] - 1 } }

Response(status, shape, results) ==
    [status |-> status, shape |-> shape, results |-> results]

\* What one GET can end in: session.get raising, raise_for_status raising,
\* response.json() raising, an exception of another kind, or a JSON body
\* without "web", with "web" but no "results", or with a result list.
Responses(c) ==
    { Response(st, "none", <<>>) :
        st \in {"transport", "http_error", "bad_json", "unexpected"} }
    \cup { Response("ok", sh, <<>>) : sh \in {"no_web", "no_results"} }
    \cup { Response("ok", "list", l) : l \in ResultLists(c) }

-----------------------------------------------------------------------------
(* server.py: AIVCResearcher *)

\* not self.brave_api_key
NoKey(key) == key = None \/ key = ""

\* result.get(k, '')
ItemGet(v) == IF v = Absent THEN "" ELSE v

SearchResult(raw) ==
    [title |-> ItemGet(raw.title), url |-> ItemGet(raw.url),
     snippet |-> ItemGet(raw.description)]

\* _fallback_search
FallbackSearch == <<>>

\* a search_web that asks the provider before it looks at the key
IssuesRequestAlways(key) == TRUE

\* Whether search_web reaches session.get
IssuesRequest(key) == ~NoKey(key)

\* data['web']['results'][:num_results]
Truncate(results, num_results) == Take(results, num_results)

\* search_web(query, num_results), given what the GET ends in
SearchWeb(key, resp, num_results) ==
    IF NoKey(key) THEN FallbackSearch
    ELSE IF resp.status # "ok" THEN FallbackSearch
    ELSE IF resp.shape # "list" THEN <<>>
    ELSE LET cut == Truncate(resp.results, num_results) IN
         IF \E i \in 1..Len(cut) : ~cut[i].isdict
         THEN FallbackSearch
         ELSE [i \in 1..Len(cut) |-> SearchResult(cut[i])]

Templates ==
    << " venture capital AI investments",
       " portfolio companies artificial intelligence",
       " VC firm profile" >>

\* research_vc: search_queries
SearchQueries(name) == [i \in 1..Len(Templates) |-> ToStr(name) \o Templates[i]]

\* research_vc: num_results=3
ResearchNumResults == 3

\* research_vc: unique_results[:10]
MaxSearchResults == 10

\* research_vc: unique_results[:5]
MaxUrls == 5

\* search_ai_vcs: num_results=10
SearchAiVcsNumResults == 10

\* get_vc_portfolio_urls: num_results=8
PortfolioNumResults == 8

\* an accumulator that outlives the call (an attribute, not a local)
StaleResults(old) == old

\* research_vc: all_results = []
FreshResults(old) == <<>>

\* research_vc: all_results.extend(results)
Extend(all, results) == all \o results

\* research_vc: result['url'] not in seen_urls raises TypeError
DedupRaises(all) == \E i \in 1..Len(all) : all[i].url = Unhashable

\* research_vc: the loop that removes duplicates
RECURSIVE Dedup(_, _, _)
Dedup(rest, seen_urls, unique_results) ==
    IF rest = <<>> THEN unique_results
    ELSE IF Head(rest).url \notin seen_urls
    THEN Dedup(Tail(rest), seen_urls \cup {Head(rest).url},
               Append(unique_results, Head(rest)))
    ELSE Dedup(Tail(rest), seen_urls, unique_results)

\* a deduplication in which the last occurrence of a url wins
RECURSIVE DedupLastWins(_)
DedupLastWins(all) ==
    IF all = <<>> THEN <<>>
    ELSE IF \E j \in 2..Len(all) : all[j].url = Head(all).url
    THEN DedupLastWins(Tail(all))
    ELSE <<Head(all)>> \o DedupLastWins(Tail(all))

UniqueResults(all) == Dedup(all, {}, <<>>)

\* the urls of every unique result, the [:5] forgotten
TopUrlsUncut(unique) == [i \in 1..Len(unique) |-> unique[i].url]

TopUrls(unique) ==
    LET top == Take(unique, MaxUrls) IN [i \in 1..Len(top) |-> top[i].url]

\* research_vc: the dict it returns
ResearchBundle(name, all) ==
    LET unique_results == UniqueResults(all) IN
    [vc_name |-> name,
     search_results |-> Take(unique_results, MaxSearchResults),
     urls_for_fetching |-> TopUrls(unique_results)]

\* research_vc has not returned
NoBundle ==
    [vc_name |-> <<"<none>">>, search_results |-> <<>>, urls_for_fetching |-> <<>>]

-----------------------------------------------------------------------------
(* server.py: the tools' reports.  A report is the list of lines the tool  *)
(* joins with "\n".                                                        *)

\* the numbered entries of a result list (enumerate(results, 1))
RECURSIVE ResultLines(_, _)
ResultLines(results, i) ==
    IF i > Len(results) THEN <<>>
    ELSE << IntStr(i) \o ". " \o results[i].title,
            "   URL: " \o results[i].url >>
         \o (IF results[i].snippet # ""
             THEN << "   Snippet: " \o results[i].snippet >> ELSE <<>>)
         \o << "" >>
         \o ResultLines(results, i + 1)

NumberedUrls(urls) == [i \in 1..Len(urls) |-> IntStr(i) \o ". " \o urls[i]]

\* a tool without its try/except: the exception reaches the host
Uncaught(prefix, e) == Raised(e)

\* except Exception as e: return f"<prefix>{str(e)}"
Caught(prefix, e) == Str(<< prefix \o e >>)

UnhashableError == "unhashable type: 'list'"

ErrorPrefix(t) ==
    CASE t = "search_ai_vcs" -> "Error searching: "
      [] t = "get_vc_urls" -> "Error getting VC URLs: "
      [] t = "research_vc_firm" -> "Error researching VC firm: "
      [] t = "get_vc_portfolio_urls" -> "Error getting portfolio URLs: "
      [] t = "compare_vc_firms" -> "Error comparing VC firms: "

\* search_ai_vcs, given what search_web returned
SearchReport(query, results) ==
    IF results = <<>>
    THEN Str(<< "No search results found. Make sure BRAVE_SEARCH_API_KEY is set." >>)
    ELSE Str(<< "Search Results for: " \o ToStr(query) \o "\n" \o Repeat("=", 50) >>
             \o ResultLines(results, 1))

\* get_vc_portfolio_urls, given what search_web returned
PortfolioReport(name, results) ==
    IF results = <<>>
    THEN Str(<< "No portfolio URLs found for " \o ToStr(name)
                  \o ". Check if BRAVE_SEARCH_API_KEY is set." >>)
    ELSE Str(<< "PORTFOLIO RESEARCH URLs: " \o ToStr(name), Repeat("=", 50), "",
                "Use these URLs with web_fetch tool to get portfolio details:", "" >>
             \o ResultLines(results, 1))

\* get_vc_urls, given what research_vc returned
UrlReport(data) ==
    Str(<< "URLs FOR " \o ToStr(Upper(data.vc_name)), Repeat("=", 50), "",
           "Use these URLs with the web_fetch tool to get detailed content:", "" >>
        \o NumberedUrls(data.urls_for_fetching)
        \o << "", "All search results:" >>
        \o ResultLines(data.search_results, 1))

\* research_vc_firm, given what research_vc returned
ResearchReport(data) ==
    Str(<< "RESEARCH REPORT: " \o ToStr(data.vc_name), Repeat("=", 60), "",
           "INSTRUCTIONS:",
           "Use the web_fetch tool on the URLs below to get detailed content.", "",
           "TOP URLs FOR CONTENT FETCHING:", Repeat("-", 35) >>
        \o NumberedUrls(data.urls_for_fetching)
        \o << "", "ALL SEARCH RESULTS:", Repeat("-", 20) >>
        \o ResultLines(data.search_results, 1))

\* compare_vc_firms: [name.strip() for name in vc_names.split(',')]
VcList(vc_names) ==
    LET parts == Split(vc_names, <<>>) IN [i \in 1..Len(parts) |-> Strip(parts[i])]

\* comparison_data[vc_name] = research_data: a key the dict holds keeps its
\* place and gets the new value, a new key goes last
DictSet(d, k, v) ==
    IF \E i \in 1..Len(d) : d[i].key = k
    THEN [i \in 1..Len(d) |-> IF d[i].key = k THEN [key |-> k, data |-> v] ELSE d[i]]
    ELSE Append(d, [key |-> k, data |-> v])

SubsectionTitle == "Top URLs to fetch:"

\* compare_vc_firms: the subsection of one item of comparison_data (the
\* bullet of the source written as an asterisk)
Subsection(name, data) ==
    << "\n" \o ToStr(Upper(name)), Repeat("-", Len(name)), SubsectionTitle >>
    \o [i \in 1..Len(data.urls_for_fetching) |-> "  * " \o data.urls_for_fetching[i]]
    \o << "\nAll search results (" \o IntStr(Len(data.search_results)) \o " found):" >>
    \o LET top == Take(data.search_results, 3) IN
       [i \in 1..(2 * Len(top)) |->
          IF i % 2 = 1 THEN "  * " \o top[(i + 1) \div 2].title
          ELSE "    " \o top[i \div 2].url]
    \o << "" >>

RECURSIVE Subsections(_)
Subsections(d) ==
    IF d = <<>> THEN <<>>
    ELSE Subsection(d[1].key, d[1].data) \o Subsections(Tail(d))

\* compare_vc_firms: the report
ComparisonReport(names, d) ==
    Str(<< "COMPARISON URLs: "
             \o Join([i \in 1..Len(names) |-> ToStr(names[i])], " vs "),
           Repeat("=", 80), "",
           "Use web_fetch on these URLs to get detailed comparison data:", "" >>
        \o Subsections(d))

-----------------------------------------------------------------------------
(* What the host calls the tools with *)

\* get_vc_info: every key, its upper case, a mixed case, a padded key, unknown
\* keys, the empty string, and two values that are no str
KeyArgs ==
    { StrArg(Directory[i].key) : i \in 1..Len(Directory) }
    \cup { StrArg(Upper(Directory[i].key)) : i \in 1..Len(Directory) }
    \cup { StrArg(<<"G", "v">>), StrArg(<<" ", "g", "v">>), StrArg(<<"x">>),
           StrArg(<<"X", "1">>), StrArg(<<>>), IntArg, NoneArg }

\* the firm names and queries of the search tools
FirmNames == { <<"a">>, <<"G", "v">> }

\* compare_vc_firms: one name, two names (one of them padded), and a name
\* that comes twice
CompareArgs ==
    { <<"a">>,
      <<"a", ",", " ", "B">>,
      <<"a", " ", ",", "a">> }

-----------------------------------------------------------------------------
(* The state machine *)

\* The providers of a run: one that answers with any list over two items
\* (the same url twice, two urls, a url that cannot be hashed, an item that
\* is no dict)
Corpora ==
    { [mode |-> "any", items |-> {ItemA, other}] :
        other \in {ItemB, ItemC, ItemD, ItemJ} }

\* After the module is loaded: AIVCResearcher() has read the key from the
\* environment (None when unset, "" when set to nothing).
Init ==
    /\ ai_vcs = Directory
    /\ brave_api_key \in {None, "", "key"}
    /\ corpus \in Corpora
    /\ pc = "idle"
    /\ tool = "none"
    /\ vc_name = <<>>
    /\ qi = 1
    /\ all_results = <<>>
    /\ vc_list = <<>>
    /\ vi = 1
    /\ comparison_data = <<>>
    /\ ret = Pending
    /\ bundle = NoBundle
    /\ vc_key = NoneArg
    /\ calls = <<>>
    /\ overlong = FALSE
    /\ events = <<>>

\* the provider of the wide specification: a ranked list of distinct urls
InitWide ==
    /\ ai_vcs = Directory
    /\ brave_api_key \in {None, "", "key"}
    /\ corpus = [mode |-> "window", items |-> {}]
    /\ pc = "idle"
    /\ tool = "none"
    /\ vc_name = <<>>
    /\ qi = 1
    /\ all_results = <<>>
    /\ vc_list = <<>>
    /\ vi = 1
    /\ comparison_data = <<>>
    /\ ret = Pending
    /\ bundle = NoBundle
    /\ vc_key = NoneArg
    /\ calls = <<>>
    /\ overlong = FALSE
    /\ events = <<>>

compareLocals == <<vc_list, vi, comparison_data>>
locals == <<vc_name, qi, all_results, bundle, calls, overlong, vc_list, vi,
            comparison_data>>
globals == <<ai_vcs, brave_api_key, corpus>>

\* the tool returns: the locals of research_vc are gone
Discard ==
    /\ vc_name' = <<>>
    /\ qi' = 1
    /\ all_results' = <<>>

\* get_ai_vcs()
GetAiVcs ==
    /\ pc = "idle"
    /\ tool' = "get_ai_vcs"
    /\ ret' = GetAiVcsResult(ai_vcs)
    /\ events' = <<>>
    /\ pc' = "done"
    /\ UNCHANGED <<globals, locals, vc_key>>

\* get_vc_info(vc_key)
GetVcInfo ==
    /\ pc = "idle"
    /\ \E arg \in KeyArgs :
         /\ vc_key' = arg
         /\ ret' = GetVcInfoResult(ai_vcs, arg)
    /\ tool' = "get_vc_info"
    /\ events' = <<>>
    /\ pc' = "done"
    /\ UNCHANGED <<globals, locals>>

\* search_ai_vcs(query)
SearchAiVcs ==
    /\ pc = "idle"
    /\ \E query \in FirmNames, resp \in Responses(corpus) :
         ret' = SearchReport(query,
                    SearchWeb(brave_api_key, resp, SearchAiVcsNumResults))
    /\ tool' = "search_ai_vcs"
    /\ events' = IF IssuesRequest(brave_api_key) THEN <<"req">> ELSE <<>>
    /\ pc' = "done"
    /\ UNCHANGED <<globals, locals, vc_key>>

\* get_vc_portfolio_urls(vc_name)
GetVcPortfolioUrls ==
    /\ pc = "idle"
    /\ \E name \in FirmNames, resp \in Responses(corpus) :
         ret' = PortfolioReport(name,
                    SearchWeb(brave_api_key, resp, PortfolioNumResults))
    /\ tool' = "get_vc_portfolio_urls"
    /\ events' = IF IssuesRequest(brave_api_key) THEN <<"req">> ELSE <<>>
    /\ pc' = "done"
    /\ UNCHANGED <<globals, locals, vc_key>>

\* research_vc(name), up to the for loop over the queries
ResearchBegin(name) ==
    /\ vc_name' = name
    /\ qi' = 1
    /\ all_results' = FreshResults(all_results)
    /\ bundle' = NoBundle
    /\ calls' = <<>>
    /\ overlong' = FALSE
    /\ pc' = "query"

\* get_vc_urls(vc_name) and research_vc_firm(vc_name), up to the first query
CallResearch ==
    /\ pc = "idle"
    /\ tool' \in {"get_vc_urls", "research_vc_firm"}
    /\ \E name \in FirmNames : ResearchBegin(name)
    /\ ret' = Pending
    /\ events' = <<>>
    /\ UNCHANGED <<globals, compareLocals, vc_key>>

\* compare_vc_firms(vc_names), up to the first query of the first firm
CallCompare ==
    /\ pc = "idle"
    /\ tool' = "compare_vc_firms"
    /\ \E vc_names \in CompareArgs :
         /\ vc_list' = VcList(vc_names)
         /\ ResearchBegin(VcList(vc_names)[1])
    /\ vi' = 1
    /\ comparison_data' = <<>>
    /\ ret' = Pending
    /\ events' = <<>>
    /\ UNCHANGED <<globals, vc_key>>

\* a research_vc that asks again when the request failed
QueryWithRetry ==
    /\ pc = "query"
    /\ \E resp \in Responses(corpus) :
         LET results == SearchWeb(brave_api_key, resp, ResearchNumResults)
             failed == IssuesRequest(brave_api_key)
                       /\ resp.status \in {"transport", "http_error"} IN
         /\ all_results' = Extend(all_results, results)
         /\ calls' = Append(calls,
                [query |-> SearchQueries(vc_name)[qi], failed |-> failed,
                 results |-> results])
         /\ overlong' = overlong
         /\ pc' = IF failed /\ Len(calls) < 3 THEN "query" ELSE "sleep"
    /\ events' = IF IssuesRequest(brave_api_key) THEN Append(events, "req") ELSE events
    /\ UNCHANGED <<globals, tool, vc_name, qi, bundle, compareLocals, ret, vc_key>>

\* research_vc: results = self.search_web(query, num_results=3) and
\* all_results.extend(results)
Query ==
    /\ pc = "query"
    /\ \E resp \in Responses(corpus) :
         LET results == SearchWeb(brave_api_key, resp, ResearchNumResults) IN
         /\ all_results' = Extend(all_results, results)
         /\ calls' = Append(calls,
                [query |-> SearchQueries(vc_name)[qi],
                 failed |-> IssuesRequest(brave_api_key)
                            /\ resp.status \in {"transport", "http_error"},
                 results |-> results])
         /\ overlong' = (overlong \/ (/\ IssuesRequest(brave_api_key)
                                       /\ resp.status = "ok"
                                       /\ Len(resp.results) > ResearchNumResults))
    /\ events' = IF IssuesRequest(brave_api_key) THEN Append(events, "req") ELSE events
    /\ pc' = "sleep"
    /\ UNCHANGED <<globals, tool, vc_name, qi, bundle, compareLocals, ret, vc_key>>

\* a research_vc without its time.sleep(1)
NoPauseAfterQuery(log) == log

\* what time.sleep(1) in research_vc leaves in the log
PauseAfterQuery(log) == Append(log, "sleep")

\* research_vc: time.sleep(1), and the for loop goes on or ends
Sleep ==
    /\ pc = "sleep"
    /\ events' = PauseAfterQuery(events)
    /\ IF qi < Len(Templates)
       THEN qi' = qi + 1 /\ pc' = "query"
       ELSE qi' = qi /\ pc' = "dedup"
    /\ UNCHANGED <<globals, tool, vc_name, all_results, bundle, calls, overlong,
                   compareLocals, ret, vc_key>>

\* research_vc removes the duplicates and returns to get_vc_urls or
\* research_vc_firm, which returns its report; a TypeError of the
\* deduplication is caught by the tool
ResearchReturn ==
    /\ pc = "dedup"
    /\ tool \in {"get_vc_urls", "research_vc_firm"}
    /\ IF DedupRaises(all_results)
       THEN /\ ret' = Caught(ErrorPrefix(tool), UnhashableError)
            /\ bundle' = bundle
       ELSE /\ bundle' = ResearchBundle(vc_name, all_results)
            /\ ret' = IF tool = "get_vc_urls" THEN UrlReport(bundle')
                      ELSE ResearchReport(bundle')
    /\ pc' = "done"
    /\ Discard
    /\ UNCHANGED <<globals, tool, calls, overlong, compareLocals, events, vc_key>>

\* research_vc removes the duplicates and returns to compare_vc_firms, which
\* stores the bundle under the name; a TypeError ends the tool
CompareStore ==
    /\ pc = "dedup"
    /\ tool = "compare_vc_firms"
    /\ IF DedupRaises(all_results)
       THEN /\ ret' = Caught(ErrorPrefix(tool), UnhashableError)
            /\ pc' = "done"
            /\ Discard
            /\ vi' = 1
            /\ UNCHANGED <<bundle, comparison_data>>
       ELSE /\ bundle' = ResearchBundle(vc_name, all_results)
            /\ comparison_data' = DictSet(comparison_data, vc_name, bundle')
            /\ pc' = "cmp_sleep"
            /\ UNCHANGED <<ret, vc_name, qi, all_results, vi>>
    /\ UNCHANGED <<globals, tool, calls, overlong, vc_list, events, vc_key>>

\* what time.sleep(1) in compare_vc_firms leaves in the log
PauseAfterFirm(log) == Append(log, "sleep")

\* compare_vc_firms: time.sleep(1), then the next firm's research_vc begins
CompareNext ==
    /\ pc = "cmp_sleep"
    /\ vi < Len(vc_list)
    /\ events' = PauseAfterFirm(events)
    /\ vi' = vi + 1
    /\ ResearchBegin(vc_list[vi + 1])
    /\ UNCHANGED <<globals, tool, vc_list, comparison_data, ret, vc_key>>

\* compare_vc_firms: time.sleep(1) after the last firm, then the report
CompareReturn ==
    /\ pc = "cmp_sleep"
    /\ vi = Len(vc_list)
    /\ events' = PauseAfterFirm(events)
    /\ ret' = ComparisonReport(vc_list, comparison_data)
    /\ pc' = "done"
    /\ Discard
    /\ vi' = 1
    /\ UNCHANGED <<globals, tool, bundle, calls, overlong, vc_list,
                   comparison_data, vc_key>>

\* mcp.run(): the host has the tool's answer, and the server waits for the
\* next call; nothing of the call is left
Deliver ==
    /\ pc = "done"
    /\ pc' = "idle"
    /\ tool' = "none"
    /\ ret' = Pending
    /\ events' = <<>>
    /\ bundle' = NoBundle
    /\ vc_key' = NoneArg
    /\ calls' = <<>>
    /\ overlong' = FALSE
    /\ vc_list' = <<>>
    /\ comparison_data' = <<>>
    /\ UNCHANGED <<globals, vc_name, qi, all_results, vi>>

Next ==
    \/ GetAiVcs
    \/ GetVcInfo
    \/ SearchAiVcs
    \/ GetVcPortfolioUrls
    \/ CallResearch
    \/ CallCompare
    \/ Query
    \/ Sleep
    \/ ResearchReturn
    \/ CompareStore
    \/ CompareNext
    \/ CompareReturn
    \/ Deliver

Spec == Init /\ [][Next]_vars

\* The search tools alone, against the wide provider
NextWide ==
    \/ SearchAiVcs
    \/ GetVcPortfolioUrls
    \/ CallResearch
    \/ Query
    \/ Sleep
    \/ ResearchReturn
    \/ Deliver

SpecWide == InitWide /\ [][NextWide]_vars

-----------------------------------------------------------------------------
(* The properties *)

RECURSIVE Flatten(_)
Flatten(ss) == IF ss = <<>> THEN <<>> ELSE Head(ss) \o Flatten(Tail(ss))

\* what the search_web calls of this research_vc returned, in call order
Received == Flatten([i \in 1..Len(calls) |-> calls[i].results])

\* the first index at which url u occurs in rec
FirstIndex(rec, u) ==
    CHOOSE i \in 1..Len(rec) :
        rec[i].url = u /\ \A j \in 1..(i - 1) : rec[j].url # u

Urls(rec) == { rec[i].url : i \in 1..Len(rec) }

\* the entries of rec that are the first of their url, in the order of rec
RECURSIVE FirstOccurrences(_, _)
FirstOccurrences(rec, i) ==
    IF i > Len(rec) THEN <<>>
    ELSE (IF \A j \in 1..(i - 1) : rec[j].url # rec[i].url THEN <<rec[i]>> ELSE <<>>)
         \o FirstOccurrences(rec, i + 1)

ResearchTools == {"get_vc_urls", "research_vc_firm", "compare_vc_firms"}

SearchTools ==
    ResearchTools \cup {"search_ai_vcs", "get_vc_portfolio_urls"}

InResearch == pc \in {"query", "sleep", "dedup"}

Requests(log) == Len(SelectSeq(log, LAMBDA e : e = "req"))

\* C1: the searchResults of a bundle research_vc returned hold no url twice,
\* each entry is the first of its url among the results the three search_web
\* calls returned (in call order), every url received is kept once, and the
\* entries stand in the order their urls were first seen.
C1_DedupFirstSeen ==
    bundle # NoBundle =>
        LET sr == bundle.search_results IN
        /\ \A i, j \in 1..Len(sr) : i # j => sr[i].url # sr[j].url
        /\ \A i \in 1..Len(sr) :
             /\ sr[i].url \in Urls(Received)
             /\ sr[i] = Received[FirstIndex(Received, sr[i].url)]
        /\ \A i, j \in 1..Len(sr) :
             i < j => FirstIndex(Received, sr[i].url) < FirstIndex(Received, sr[j].url)
        /\ Urls(sr) = Urls(Received)

\* the first result received won over a later result of the same url and
\* another title: the bundle holds it, and it alone
C1_Witness ==
    /\ bundle # NoBundle
    /\ Len(bundle.search_results) = 1
    /\ \E i, j \in 1..Len(Received) :
         /\ i < j
         /\ Received[i].url = Received[j].url
         /\ Received[i] # Received[j]
         /\ bundle.search_results[1] = Received[i]
         /\ i = 1

\* C2: research_vc never makes more than 3 search_web calls, and the bundle
\* it returns never holds more than 10 search results or 5 urls for fetching,
\* however long the provider's answers are.
C2_Bounded ==
    /\ Len(calls) <= 3
    /\ tool \in {"get_vc_urls", "research_vc_firm"} => Requests(events) <= 3
    /\ Len(bundle.search_results) <= 10
    /\ Len(bundle.urls_for_fetching) <= 5

\* three calls, one of them answered with more results than asked for, more
\* than five different urls: five urls for fetching
C2_Witness ==
    /\ bundle # NoBundle
    /\ overlong
    /\ Len(calls) = 3
    /\ Len(bundle.search_results) > 5
    /\ Len(bundle.urls_for_fetching) = 5

\* C3: without a credential (the variable unset, or empty) search_web returns
\* the empty list for every answer the provider could give and every limit the
\* tools ask with, no request is issued, and no tool raises.
C3_NoCredential ==
    (brave_api_key = None \/ brave_api_key = "") =>
        /\ pc = "idle" =>
             \A resp \in Responses(corpus) :
                 \A n \in {ResearchNumResults, PortfolioNumResults,
                            SearchAiVcsNumResults, 5} :
                     SearchWeb(brave_api_key, resp, n) = <<>>
        /\ \A i \in 1..Len(calls) : calls[i].results = <<>>
        /\ Requests(events) = 0
        /\ tool \in SearchTools => ret.kind # "raise"
        /\ (pc = "done" /\ tool = "search_ai_vcs") =>
             ret = Str(<< "No search results found. Make sure BRAVE_SEARCH_API_KEY is set." >>)

\* without a credential: a search has returned, and a research has made its
\* three calls
C3_Witness ==
    /\ brave_api_key = None
    /\ \/ pc = "done" /\ tool = "search_ai_vcs"
       \/ pc = "done" /\ tool = "research_vc_firm" /\ Len(calls) = 3

\* C4: in research_vc a query whose request fails (transport error or
\* non-success status) adds no result; the i-th call is the i-th template, so
\* no query is asked twice; the loop goes on to the remaining queries; and the
\* bundle holds the deduplicated results of the calls.
C4_FailedQuery ==
    /\ \A i \in 1..Len(calls) : calls[i].failed => calls[i].results = <<>>
    /\ Len(calls) <= Len(Templates)
    /\ InResearch =>
         /\ \A i \in 1..Len(calls) : calls[i].query = SearchQueries(vc_name)[i]
         /\ pc = "query" => Len(calls) = qi - 1
         /\ pc = "sleep" => Len(calls) = qi
         /\ pc = "dedup" => Len(calls) = Len(Templates)
    /\ bundle # NoBundle =>
         /\ Len(calls) = Len(Templates)
         /\ \A i \in 1..Len(calls) :
              calls[i].query = SearchQueries(bundle.vc_name)[i]
         /\ bundle.search_results =
              FirstOccurrences(
                Flatten([i \in 1..Len(calls) |->
                           IF calls[i].failed THEN <<>> ELSE calls[i].results]), 1)

\* the second query failed; the first and the third brought results, and the
\* bundle has them
C4_Witness ==
    /\ bundle # NoBundle
    /\ Len(calls) = 3
    /\ calls[2].failed
    /\ calls[1].results # <<>>
    /\ calls[3].results # <<>>
    /\ ~calls[1].failed /\ ~calls[3].failed
    /\ Len(bundle.search_results) = 2

\* C5: a search tool that has returned has returned a string, whatever its
\* search_web calls ended in: it never raises to the host.
C5_ToolsReturnStrings ==
    (pc = "done" /\ tool \in SearchTools) => ret.kind = "str"

\* the deduplication raised in the second firm of a comparison, and the tool
\* returned the error string
C5_Witness ==
    /\ pc = "done"
    /\ tool = "compare_vc_firms"
    /\ Len(comparison_data) = 1
    /\ ret = Str(<< "Error comparing VC firms: unhashable type: 'list'" >>)

\* the three lines get_vc_info returns for the i-th firm of the directory
FirmCard(i) ==
    Str(<< Directory[i].name, "Focus: " \o Directory[i].focus,
           "Notable investments: " \o Join(Directory[i].notable, ", ") >>)

\* C6: for every key of the directory, get_vc_info(key) and
\* get_vc_info(key.upper()) return the same thing: the record of the key.
C6_CaseInsensitive ==
    \A i \in 1..Len(Directory) :
        LET key == Directory[i].key IN
        /\ pc = "idle" =>
             GetVcInfoResult(ai_vcs, StrArg(key))
               = GetVcInfoResult(ai_vcs, StrArg(Upper(key)))
        /\ (/\ pc = "done"
            /\ tool = "get_vc_info"
            /\ vc_key \in {StrArg(key), StrArg(Upper(key))}) => ret = FirmCard(i)

\* get_vc_info("SEQUOIA") has returned the record of sequoia
C6_Witness ==
    /\ pc = "done"
    /\ tool = "get_vc_info"
    /\ vc_key = StrArg(<<"S", "E", "Q", "U", "O", "I", "A">>)
    /\ ret.lines[1] = "Sequoia Capital"

NotFoundMessage(text) ==
    Str(<< "VC '" \o text
             \o "' not found. Available: a16z, sequoia, gv, nea, kleiner" >>)

\* C7: get_vc_info never raises: an argument that is no string gets the
\* not-found message.
C7_NeverFails ==
    (pc = "done" /\ tool = "get_vc_info") =>
        /\ ret.kind = "str"
        /\ vc_key.type # "str" => \E text \in {"5", "None"} : ret = NotFoundMessage(text)

\* C8: in one run of a research or comparison tool no request follows another
\* without a pause between them.
C8_PauseBetweenRequests ==
    \A i \in 1..(Len(events) - 1) : ~(events[i] = "req" /\ events[i + 1] = "req")

\* a comparison of two firms has made its six requests
C8_Witness ==
    /\ tool = "compare_vc_firms"
    /\ pc = "done"
    /\ Requests(events) = 6

Subsections_in(lines) == Len(SelectSeq(lines, LAMBDA l : l = SubsectionTitle))

\* C9: the report of compare_vc_firms has as many subsections as the list has
\* names, a repeated name included.
C9_SubsectionPerName ==
    (pc = "done" /\ tool = "compare_vc_firms" /\ comparison_data # <<>>
       /\ Len(ret.lines) > 1)
        => Subsections_in(ret.lines) = Len(vc_list)

\* C10: nothing an earlier call left is in a later result: the accumulator of
\* a running research_vc holds exactly what its own search_web calls returned,
\* every entry and url of a returned bundle is from those calls, the bundle is
\* the bundle of those results alone, and the directory is as it was defined.
C10_NoCarryOver ==
    /\ ai_vcs = Directory
    /\ InResearch => all_results = Received
    /\ bundle # NoBundle =>
         /\ \A i \in 1..Len(bundle.search_results) :
              \E k \in 1..Len(Received) : bundle.search_results[i] = Received[k]
         /\ \A i \in 1..Len(bundle.urls_for_fetching) :
              bundle.urls_for_fetching[i] \in Urls(Received)
         /\ bundle.search_results = FirstOccurrences(Received, 1)

\* the second firm of a comparison got no result, after a first firm that got
\* some
C10_Witness ==
    /\ tool = "compare_vc_firms"
    /\ pc = "cmp_sleep"
    /\ vi = 2
    /\ Len(comparison_data) = 2
    /\ comparison_data[1].data.search_results # <<>>
    /\ bundle # NoBundle
    /\ bundle.search_results = <<>>
    /\ Received = <<>>

====
